---- MODULE Spec2Model ----
(***************************************************************************)
(* State-machine model of the record facade (class AirtableManager) and of *)
(* the mail sender (class Email).                                          *)
(*                                                                         *)
(* One asynchronous facade operation is in flight at a time.  An operation *)
(* runs synchronously up to its first await: that prefix is the action     *)
(* named after the method.  The code after an await is the continuation    *)
(* <method>_then (the awaited promise was fulfilled) or <method>_catch     *)
(* (it was rejected and control entered the catch block).  The synchronous *)
(* methods switchTable and getConfig can run between any two of these      *)
(* steps, as the event loop allows.                                        *)
(***************************************************************************)
EXTENDS Naturals, Sequences, FiniteSets, TLC

VARIABLES
    heap,        \* object store: heap[1] is this.config, heap[2] an object handed out
    callerRef,   \* the object the caller got from getConfig (0: none yet)
    table,       \* this.table: the table the facade is bound to
    lastSwitch,  \* history: the name given to the constructor / the last switchTable
    op,          \* the operation in flight or last returned
    pc,          \* "idle" | "awaiting" | "pending" | "returned"
    local,       \* the local variables of the operation in flight
    calls,       \* the remote calls the operation has issued, in order
    committed,   \* the write calls the remote store has applied, in order
    outcome,     \* "none" | "envelope" | "rejected"
    envelope,    \* the envelope returned to the caller
    invokedUnder,\* history: lastSwitch when the operation was invoked
    switched,    \* history: switchTable ran since the operation was invoked
    mailPc,      \* the mail sender: "idle" | "sending" | "settled"
    mailCalls,   \* the sendMail requests the current sendMarkdownEmail has made
    relayReply,  \* history: what the relay answered
    mailResult   \* what sendMarkdownEmail returned or threw

vars == <<heap, callerRef, table, lastSwitch, op, pc, local, calls, committed,
          outcome, envelope, invokedUnder, switched,
          mailPc, mailCalls, relayReply, mailResult>>

facadeVars == <<heap, callerRef, table, lastSwitch>>
opVars == <<op, pc, local, calls, committed, outcome, envelope, invokedUnder, switched>>
mailVars == <<mailPc, mailCalls, relayReply, mailResult>>


(***************************************************************************)
(* Bounds of the model.                                                    *)
(***************************************************************************)
MaxN == 25          \* longest input list of a bulk operation
MaxItem == 2        \* single-record operations draw identifiers from 1..MaxItem
MaxPageLen == 1     \* most records the store puts in one page of getAll / count
MaxPages == 2       \* most pages the store has for one query
MaxPageSize == 3    \* getPaginated is called with pageSize 1..MaxPageSize, or without
MaxFilterLen == 2   \* most entries of a filter mapping (specification SpecFilter)
MainFilterLen == 1  \* most entries of a filter mapping (specification Spec)

(***************************************************************************)
(* Program constants.                                                      *)
(***************************************************************************)
batchSize == 10
DefaultMaxRecords == 100
DefaultPageSize == 20

Undefined == 0      \* JavaScript's undefined where a number or identifier is expected

Tables == {"A", "B"}

\* new AirtableManager(apiKey, baseId, tableName)
CtorConfig == [apiKey |-> "key", baseId |-> "base", tableName |-> "A"]

Min(a, b) == IF a < b THEN a ELSE b

(***************************************************************************)
(* Remote failures: the SDK rejects with an error object carrying a        *)
(* statusCode and a message; message "" stands for a missing/empty one.    *)
(***************************************************************************)
Errors == { [statusCode |-> s, message |-> m] :
              s \in {404, 500}, m \in {"", "remote says no"} }

NoError == [statusCode |-> 0, message |-> ""]

\* mutant: the fallback is forgotten
MessageOr_noFallback(error, fallback) == error.message

\* error.message || fallback
MessageOr(error, fallback) == IF error.message # "" THEN error.message ELSE fallback

(***************************************************************************)
(* Records.  The remote store answers a write of one item with a raw       *)
(* record for it, in the order the items were sent.                        *)
(***************************************************************************)
RawRecord(id, fields) == [id |-> id, fields |-> fields, _rawJson |-> [createdTime |-> id]]

formatRecord(record) ==
    [id |-> record.id, fields |-> record.fields,
     createdTime |-> IF "_rawJson" \in DOMAIN record THEN record._rawJson.createdTime
                     ELSE Undefined]

MapSeq(F(_), s) == [j \in 1..Len(s) |-> F(s[j])]

\* mutant: the end index is taken as inclusive
slice_inclusive(s, from, to) == SubSeq(s, from + 1, Min(to + 1, Len(s)))

\* Array.prototype.slice(from, to) with 0-based, end-exclusive indices
slice(s, from, to) == SubSeq(s, from + 1, Min(to, Len(s)))

(***************************************************************************)
(* Local variables of an operation, and the envelope before any return.    *)
(***************************************************************************)
FreshLocal == [input |-> <<>>, i |-> 0, results |-> <<>>, deletedCount |-> 0,
               records |-> <<>>, nextOffset |-> Undefined, count |-> 0,
               pageSize |-> 0, offset |-> Undefined, pages |-> 0,
               filterFormula |-> "", error |-> NoError]

NoEnvelope == [none |-> TRUE]

\* a call on this.table: it goes to the table the facade is bound to right now
Call(method, args) == [table |-> table, afterSwitch |-> switched, method |-> method, args |-> args]

LastCall == calls[Len(calls)]

\* return <env> from the async method
Return(env) ==
    /\ pc' = "returned"
    /\ outcome' = "envelope"
    /\ envelope' = env

\* await this.table.<method>(args)
Await(cs, method, args) ==
    /\ calls' = Append(cs, Call(method, args))
    /\ pc' = "awaiting"
    /\ outcome' = "none"
    /\ envelope' = NoEnvelope

\* the caller invokes <name> on the facade
Begin(name) ==
    /\ pc = "idle"
    /\ op' = name
    /\ committed' = <<>>
    /\ invokedUnder' = lastSwitch
    /\ switched' = FALSE
    /\ UNCHANGED facadeVars
    /\ UNCHANGED mailVars

\* the awaited call of operation <name> settles and the operation runs on
Resume(name) ==
    /\ op = name
    /\ pc = "awaiting"
    /\ UNCHANGED <<op, invokedUnder, switched>>
    /\ UNCHANGED facadeVars
    /\ UNCHANGED mailVars

(***************************************************************************)
(* Bulk operations.                                                        *)
(***************************************************************************)
\* catch (error) { return { success: false, error: error.message || fallback } }
Failure(error, fallback) == [success |-> FALSE, error |-> MessageOr(error, fallback)]

BulkInput(n, shape) ==
    [j \in 1..n |-> IF shape = "asc" THEN j ELSE n + 1 - j]

\* for (let i = ...; i < items.length; ...) { batch = slice; await method(batch) ... } return done
BulkLoop(cs, method, items, loc, done) ==
    /\ local' = loc
    /\ IF loc.i < Len(items)
       THEN Await(cs, method, slice(items, loc.i, loc.i + batchSize))
       ELSE /\ Return(done)
            /\ calls' = cs

BulkWriteDone(loc) == [success |-> TRUE, data |-> loc.results, count |-> Len(loc.results)]

BulkDeleteDone(loc) == [success |-> TRUE, deletedCount |-> loc.deletedCount,
                        message |-> ToString(loc.deletedCount) \o " records deleted successfully"]

CreateInputs(ids) == MapSeq(LAMBDA k : [fields |-> k], ids)
UpdateInputs(ids) == MapSeq(LAMBDA k : [id |-> k, fields |-> k + 1], ids)

bulkCreate ==
    /\ Begin("bulkCreate")
    /\ \E n \in 0..MaxN, shape \in {"asc", "desc"} :
          LET loc == [FreshLocal EXCEPT !.input = CreateInputs(BulkInput(n, shape))]
          IN  BulkLoop(<<>>, "create", loc.input, loc, BulkWriteDone(loc))

bulkCreate_then ==
    /\ Resume("bulkCreate")
    /\ committed' = Append(committed, LastCall)
    /\ LET batch == LastCall.args
           records == MapSeq(LAMBDA it : RawRecord(it.fields, it.fields), batch)
           loc == [local EXCEPT !.results = local.results \o MapSeq(formatRecord, records),
                                !.i = local.i + batchSize]
       IN  BulkLoop(calls, "create", loc.input, loc, BulkWriteDone(loc))

\* mutant: the failure of a chunk is caught inside the loop, which goes on
bulkCreate_catch_continue ==
    /\ Resume("bulkCreate")
    /\ \E error \in Errors :
          LET loc == [local EXCEPT !.error = error, !.i = local.i + batchSize]
          IN  BulkLoop(calls, "create", loc.input, loc, Failure(error, "Bulk create failed"))
    /\ UNCHANGED committed

bulkCreate_catch ==
    /\ Resume("bulkCreate")
    /\ \E error \in Errors :
          /\ local' = [local EXCEPT !.error = error]
          /\ Return(Failure(error, "Bulk create failed"))
    /\ UNCHANGED <<calls, committed>>

bulkUpdate ==
    /\ Begin("bulkUpdate")
    /\ \E n \in 0..MaxN, shape \in {"asc", "desc"} :
          LET loc == [FreshLocal EXCEPT !.input = UpdateInputs(BulkInput(n, shape))]
          IN  BulkLoop(<<>>, "update", loc.input, loc, BulkWriteDone(loc))

bulkUpdate_then ==
    /\ Resume("bulkUpdate")
    /\ committed' = Append(committed, LastCall)
    /\ LET batch == LastCall.args
           records == MapSeq(LAMBDA it : RawRecord(it.id, it.fields), batch)
           loc == [local EXCEPT !.results = local.results \o MapSeq(formatRecord, records),
                                !.i = local.i + batchSize]
       IN  BulkLoop(calls, "update", loc.input, loc, BulkWriteDone(loc))

bulkUpdate_catch ==
    /\ Resume("bulkUpdate")
    /\ \E error \in Errors :
          /\ local' = [local EXCEPT !.error = error]
          /\ Return(Failure(error, "Bulk update failed"))
    /\ UNCHANGED <<calls, committed>>

bulkDelete ==
    /\ Begin("bulkDelete")
    /\ \E n \in 0..MaxN, shape \in {"asc", "desc"} :
          LET loc == [FreshLocal EXCEPT !.input = BulkInput(n, shape)]
          IN  BulkLoop(<<>>, "destroy", loc.input, loc, BulkDeleteDone(loc))

bulkDelete_then ==
    /\ Resume("bulkDelete")
    /\ committed' = Append(committed, LastCall)
    /\ LET batch == LastCall.args
           loc == [local EXCEPT !.deletedCount = local.deletedCount + Len(batch),
                                !.i = local.i + batchSize]
       IN  BulkLoop(calls, "destroy", loc.input, loc, BulkDeleteDone(loc))

bulkDelete_catch ==
    /\ Resume("bulkDelete")
    /\ \E error \in Errors :
          /\ local' = [local EXCEPT !.error = error]
          /\ Return(Failure(error, "Bulk delete failed"))
    /\ UNCHANGED <<calls, committed>>

(***************************************************************************)
(* Single-record operations.                                               *)
(***************************************************************************)
\* mutant: the remote's message wins over the 404 test
NotFoundOr_messageFirst(error, fallback) ==
    [success |-> FALSE,
     error |-> IF error.message # "" THEN error.message
               ELSE IF error.statusCode = 404 THEN "Record not found" ELSE fallback]

\* error.statusCode === 404 ? "Record not found" : error.message || fallback
NotFoundOr(error, fallback) ==
    [success |-> FALSE,
     error |-> IF error.statusCode = 404 THEN "Record not found"
               ELSE MessageOr(error, fallback)]

create ==
    /\ Begin("create")
    /\ \E k \in 1..MaxItem :
          /\ local' = [FreshLocal EXCEPT !.input = <<[fields |-> k]>>]
          /\ Await(<<>>, "create", <<[fields |-> k]>>)

create_then ==
    /\ Resume("create")
    /\ committed' = Append(committed, LastCall)
    /\ LET records == MapSeq(LAMBDA it : RawRecord(it.fields, it.fields), LastCall.args)
       IN  Return([success |-> TRUE, data |-> formatRecord(records[1])])
    /\ UNCHANGED <<local, calls>>

create_catch ==
    /\ Resume("create")
    /\ \E error \in Errors :
          /\ local' = [local EXCEPT !.error = error]
          /\ Return(Failure(error, "Failed to create record"))
    /\ UNCHANGED <<calls, committed>>

getById ==
    /\ Begin("getById")
    /\ \E id \in 1..MaxItem :
          /\ local' = [FreshLocal EXCEPT !.input = <<id>>]
          /\ Await(<<>>, "find", <<id>>)

getById_then ==
    /\ Resume("getById")
    /\ LET record == RawRecord(LastCall.args[1], LastCall.args[1])
       IN  Return([success |-> TRUE, data |-> formatRecord(record)])
    /\ UNCHANGED <<local, calls, committed>>

getById_catch ==
    /\ Resume("getById")
    /\ \E error \in Errors :
          /\ local' = [local EXCEPT !.error = error]
          /\ Return(NotFoundOr(error, "Failed to fetch record"))
    /\ UNCHANGED <<calls, committed>>

update ==
    /\ Begin("update")
    /\ \E id \in 1..MaxItem, f \in 1..MaxItem :
          /\ local' = [FreshLocal EXCEPT !.input = <<[id |-> id, fields |-> f]>>]
          /\ Await(<<>>, "update", <<[id |-> id, fields |-> f]>>)

update_then ==
    /\ Resume("update")
    /\ committed' = Append(committed, LastCall)
    /\ LET records == MapSeq(LAMBDA it : RawRecord(it.id, it.fields), LastCall.args)
       IN  Return([success |-> TRUE, data |-> formatRecord(records[1])])
    /\ UNCHANGED <<local, calls>>

update_catch ==
    /\ Resume("update")
    /\ \E error \in Errors :
          /\ local' = [local EXCEPT !.error = error]
          /\ Return(NotFoundOr(error, "Failed to update record"))
    /\ UNCHANGED <<calls, committed>>

delete ==
    /\ Begin("delete")
    /\ \E id \in 1..MaxItem :
          /\ local' = [FreshLocal EXCEPT !.input = <<id>>]
          /\ Await(<<>>, "destroy", <<id>>)

delete_then ==
    /\ Resume("delete")
    /\ committed' = Append(committed, LastCall)
    /\ Return([success |-> TRUE, message |-> "Record deleted successfully"])
    /\ UNCHANGED <<local, calls>>

delete_catch ==
    /\ Resume("delete")
    /\ \E error \in Errors :
          /\ local' = [local EXCEPT !.error = error]
          /\ Return(NotFoundOr(error, "Failed to delete record"))
    /\ UNCHANGED <<calls, committed>>

\* mutant: a missing record is reported as a failure
existsCatch_notFoundFails(error) == Failure(error, "Failed to check record existence")

\* the catch block of exists
existsCatch(error) ==
    IF error.statusCode = 404
    THEN [success |-> TRUE, exists |-> FALSE]
    ELSE Failure(error, "Failed to check record existence")

exists ==
    /\ Begin("exists")
    /\ \E id \in 1..MaxItem :
          /\ local' = [FreshLocal EXCEPT !.input = <<id>>]
          /\ Await(<<>>, "find", <<id>>)

exists_then ==
    /\ Resume("exists")
    /\ Return([success |-> TRUE, exists |-> TRUE])
    /\ UNCHANGED <<local, calls, committed>>

exists_catch ==
    /\ Resume("exists")
    /\ \E error \in Errors :
          /\ local' = [local EXCEPT !.error = error]
          /\ Return(existsCatch(error))
    /\ UNCHANGED <<calls, committed>>

(***************************************************************************)
(* The filter-formula builder.  A filter mapping is the sequence of its    *)
(* entries in Object.entries order; a value carries its JavaScript type.   *)
(***************************************************************************)
Val(t, s, n, b) == [t |-> t, s |-> s, n |-> n, b |-> b]

FilterValues ==
    { Val("undefined", "", 0, FALSE), Val("null", "", 0, FALSE),
      Val("string", "", 0, FALSE), Val("string", "Bob", 0, FALSE),
      Val("number", "", 0, FALSE), Val("number", "", 7, FALSE),
      Val("boolean", "", 0, FALSE), Val("boolean", "", 0, TRUE),
      Val("array", "x,y", 0, FALSE) }     \* ["x", "y"], whose string conversion is "x,y"

FilterFields == {"name", "age", "vip"}

FilterEntries == [field : FilterFields, value : FilterValues]

Filters(maxLen) ==
    UNION { { f \in [1..len -> FilterEntries] :
                \A a, b \in 1..len : a # b => f[a].field # f[b].field } :
            len \in 0..maxLen }

\* mutant: if (value), which also drops 0 and false
isUsable_truthy(value) ==
    /\ value.t # "undefined"
    /\ value.t # "null"
    /\ ~(value.t = "string" /\ value.s = "")
    /\ ~(value.t = "number" /\ value.n = 0)
    /\ ~(value.t = "boolean" /\ ~value.b)

\* value !== undefined && value !== null && value !== ""
isUsable(value) ==
    /\ value.t # "undefined"
    /\ value.t # "null"
    /\ ~(value.t = "string" /\ value.s = "")

\* the string pushed on conditions for one entry
condition(field, value) ==
    IF value.t = "string" THEN "SEARCH(\"" \o value.s \o "\", {" \o field \o "}) > 0"
    ELSE IF value.t = "number" THEN "{" \o field \o "} = " \o ToString(value.n)
    ELSE IF value.t = "boolean"
         THEN "{" \o field \o "} = " \o (IF value.b THEN "TRUE()" ELSE "FALSE()")
    ELSE "{" \o field \o "} = \"" \o value.s \o "\""

\* Object.entries(filters).forEach(...): the conditions pushed, in order
RECURSIVE collectConditions(_)
collectConditions(filters) ==
    IF Len(filters) = 0 THEN <<>>
    ELSE LET before == collectConditions(SubSeq(filters, 1, Len(filters) - 1))
             entry == filters[Len(filters)]
         IN  IF isUsable(entry.value)
             THEN Append(before, condition(entry.field, entry.value))
             ELSE before

\* Array.prototype.join
RECURSIVE join(_, _)
join(strings, separator) ==
    IF Len(strings) = 0 THEN ""
    ELSE IF Len(strings) = 1 THEN strings[1]
    ELSE strings[1] \o separator \o join(Tail(strings), separator)

buildFilterFormula(filters) ==
    LET conditions == collectConditions(filters)
    IN  IF Len(conditions) = 0 THEN ""
        ELSE IF Len(conditions) = 1 THEN conditions[1]
        ELSE "AND(" \o join(conditions, ", ") \o ")"

(***************************************************************************)
(* Paged reads.  this.table.select(options).eachPage(pageCallback) asks    *)
(* the remote store for the first page.  The SDK's contract for what       *)
(* follows a delivered page, after pageCallback has run on it:             *)
(*   - pageCallback called fetchNextPage and the store has a further page: *)
(*     that page is requested, on the table the query was made on;         *)
(*   - pageCallback called fetchNextPage and there is no further page:     *)
(*     done() runs, which fulfils the promise eachPage returned;           *)
(*   - pageCallback returned without calling fetchNextPage: nothing more   *)
(*     runs; the promise is settled by done() alone, so it stays pending.  *)
(* A failed page request rejects the promise.                              *)
(***************************************************************************)
Absent == [x \in {} |-> 0]

Page(base, k) == [j \in 1..k |-> RawRecord(base + j, base + j)]

NextPageCall == [LastCall EXCEPT !.afterSwitch = switched,
                                 !.args = [offset |-> local.pages + 1] @@ LastCall.args]

AfterPage(calledFetchNextPage, more, loc, done) ==
    /\ local' = loc
    /\ IF calledFetchNextPage /\ more
       THEN /\ calls' = Append(calls, NextPageCall)
            /\ UNCHANGED <<pc, outcome, envelope>>
       ELSE IF calledFetchNextPage
       THEN /\ Return(done)
            /\ UNCHANGED calls
       ELSE /\ pc' = "pending"
            /\ UNCHANGED <<calls, outcome, envelope>>

\* the page sizes and continuation flags the store can answer with
PageReplies(room) ==
    { r \in [k : 0..MaxPageLen, more : BOOLEAN] :
        /\ r.k <= room
        /\ r.more => (r.k > 0 /\ r.k < room /\ local.pages + 1 < MaxPages) }

GetAllOptions ==
    [maxRecords : {Undefined, 2}, view : {"", "Mine"},
     sort : {<<>>, <<[field |-> "name", direction |-> "asc"]>>},
     filterByFormula : {"", "{age} = 7"}]

\* selectOptions as getAll builds it; sort <<>> stands for an absent sort
getAllSelectOptions(options) ==
    [maxRecords |-> IF options.maxRecords # Undefined THEN options.maxRecords
                    ELSE DefaultMaxRecords,
     view |-> IF options.view # "" THEN options.view ELSE "Grid view"]
    @@ (IF Len(options.sort) > 0 THEN [sort |-> options.sort] ELSE Absent)
    @@ (IF options.filterByFormula # "" THEN [filterByFormula |-> options.filterByFormula]
        ELSE Absent)

getAllDone(loc) == [success |-> TRUE, data |-> loc.records, count |-> Len(loc.records)]

getAll ==
    /\ Begin("getAll")
    /\ \E options \in GetAllOptions :
          /\ local' = [FreshLocal EXCEPT !.input = <<options>>]
          /\ Await(<<>>, "select", getAllSelectOptions(options))

\* search computes the formula and awaits getAll, which has its own try/catch
searchOptions(options) ==
    [filterByFormula |-> buildFilterFormula(options.filters),
     maxRecords |-> options.maxRecords, view |-> options.view, sort |-> <<>>]

search(maxLen) ==
    /\ Begin("search")
    /\ \E filters \in Filters(maxLen) :
          LET options == [filters |-> filters, maxRecords |-> Undefined, view |-> ""]
          IN  /\ local' = [FreshLocal EXCEPT !.input = <<options>>,
                                              !.filterFormula = buildFilterFormula(options.filters)]
              /\ Await(<<>>, "select", getAllSelectOptions(searchOptions(options)))

getAll_page ==
    /\ op \in {"getAll", "search"}
    /\ pc = "awaiting"
    /\ UNCHANGED <<op, invokedUnder, switched, committed>>
    /\ UNCHANGED facadeVars
    /\ UNCHANGED mailVars
    /\ \E reply \in PageReplies(LastCall.args.maxRecords - Len(local.records)) :
          LET pageRecords == Page(Len(local.records), reply.k)
              loc == [local EXCEPT !.records = local.records \o MapSeq(formatRecord, pageRecords),
                                   !.pages = local.pages + 1]
          IN  AfterPage(TRUE, reply.more, loc, getAllDone(loc))

getAll_catch ==
    /\ op \in {"getAll", "search"}
    /\ pc = "awaiting"
    /\ UNCHANGED <<op, invokedUnder, switched, committed, calls>>
    /\ UNCHANGED facadeVars
    /\ UNCHANGED mailVars
    /\ \E error \in Errors :
          /\ local' = [local EXCEPT !.error = error]
          /\ Return(Failure(error, "Failed to fetch records"))

countSelectOptions(filterByFormula) ==
    [view |-> "Grid view", fields |-> <<>>]
    @@ (IF filterByFormula # "" THEN [filterByFormula |-> filterByFormula] ELSE Absent)

count ==
    /\ Begin("count")
    /\ \E filterByFormula \in {"", "{age} = 7"} :
          /\ local' = [FreshLocal EXCEPT !.input = <<filterByFormula>>]
          /\ Await(<<>>, "select", countSelectOptions(filterByFormula))

count_page ==
    /\ Resume("count")
    /\ UNCHANGED committed
    /\ \E reply \in PageReplies(MaxPageLen * MaxPages) :
          LET loc == [local EXCEPT !.count = local.count + reply.k,
                                   !.pages = local.pages + 1]
          IN  AfterPage(TRUE, reply.more, loc, [success |-> TRUE, count |-> loc.count])

count_catch ==
    /\ Resume("count")
    /\ \E error \in Errors :
          /\ local' = [local EXCEPT !.error = error]
          /\ Return(Failure(error, "Failed to count records"))
    /\ UNCHANGED <<calls, committed>>

getPaginatedSelectOptions(pageSize, offset) ==
    [maxRecords |-> pageSize, view |-> "Grid view"]
    @@ (IF offset # Undefined THEN [offset |-> offset] ELSE Absent)

getPaginatedDone(loc) ==
    [success |-> TRUE, data |-> loc.records]
    @@ (IF loc.nextOffset # Undefined THEN [nextOffset |-> loc.nextOffset] ELSE Absent)

\* the page callback of getPaginated: its effect on records and nextOffset
getPaginatedCallback(loc, pageRecords) ==
    [loc EXCEPT !.records = loc.records \o MapSeq(formatRecord, pageRecords),
                !.nextOffset = IF Len(pageRecords) = loc.pageSize
                               THEN pageRecords[Len(pageRecords)].id
                               ELSE loc.nextOffset,
                !.pages = loc.pages + 1]

getPaginated ==
    /\ Begin("getPaginated")
    /\ \E pageSizeArg \in {Undefined} \cup 1..MaxPageSize, offset \in {Undefined, 4} :
          LET pageSize == IF pageSizeArg = Undefined THEN DefaultPageSize ELSE pageSizeArg
          IN  /\ local' = [FreshLocal EXCEPT !.pageSize = pageSize, !.offset = offset]
              /\ Await(<<>>, "select", getPaginatedSelectOptions(pageSize, offset))

getPaginated_page ==
    /\ Resume("getPaginated")
    /\ UNCHANGED committed
    /\ \E k \in 0..local.pageSize, more \in BOOLEAN :
          LET loc == getPaginatedCallback(local, Page(local.offset, k))
          IN  AfterPage(FALSE, more, loc, getPaginatedDone(loc))

getPaginated_catch ==
    /\ Resume("getPaginated")
    /\ \E error \in Errors :
          /\ local' = [local EXCEPT !.error = error]
          /\ Return(Failure(error, "Failed to fetch paginated records"))
    /\ UNCHANGED <<calls, committed>>

\* the caller takes the envelope; the facade is ready for the next operation
Settled ==
    /\ pc = "returned"
    /\ pc' = "idle"
    /\ op' = "none"
    /\ local' = FreshLocal
    /\ calls' = <<>>
    /\ committed' = <<>>
    /\ outcome' = "none"
    /\ envelope' = NoEnvelope
    /\ UNCHANGED <<invokedUnder, switched>>
    /\ UNCHANGED facadeVars
    /\ UNCHANGED mailVars

(***************************************************************************)
(* Configuration.                                                          *)
(***************************************************************************)
\* mutant: return this.config
getConfigResult_alias == [ref |-> 1, heap |-> heap]

\* return { ...this.config }: a fresh object with the same fields
getConfigResult == [ref |-> 2, heap |-> [heap EXCEPT ![2] = heap[1]]]

getConfig ==
    /\ callerRef' = getConfigResult.ref
    /\ heap' = getConfigResult.heap
    /\ UNCHANGED <<table, lastSwitch>>
    /\ UNCHANGED opVars
    /\ UNCHANGED mailVars

\* this.table = this.base(tableName)
switchTableBinding(tableName) == tableName

switchTable ==
    \E tableName \in Tables :
        /\ heap' = [heap EXCEPT ![1].tableName = tableName]
        /\ table' = switchTableBinding(tableName)
        /\ lastSwitch' = tableName
        /\ switched' = TRUE
        /\ UNCHANGED callerRef
        /\ UNCHANGED <<op, pc, local, calls, committed, outcome, envelope, invokedUnder>>
        /\ UNCHANGED mailVars

\* the caller overwrites every field of the object getConfig gave it
CallerMutates ==
    /\ callerRef # 0
    /\ heap' = [heap EXCEPT ![callerRef] = [apiKey |-> "X", baseId |-> "X", tableName |-> "X"]]
    /\ UNCHANGED <<callerRef, table, lastSwitch>>
    /\ UNCHANGED opVars
    /\ UNCHANGED mailVars

(***************************************************************************)
(* The mail sender.                                                        *)
(***************************************************************************)
\* new Email(service, address, password): this.from = this.address
EmailCtor == [service |-> "gmail", address |-> "sender@example.org", password |-> "secret"]

Recipients == {"a@example.org", "b@example.org", "c@example.org"}
Subjects == {"Hello", "Invoice", ""}
Bodies == {"<p>hi</p>", "<h1>Title</h1>", ""}

\* what the relay answers: a delivery receipt, or a failure
Receipts == { [messageId |-> "<1@relay>", response |-> "250 OK"],
              [messageId |-> "<2@relay>", response |-> "250 queued"] }
RelayErrors == { [code |-> "EAUTH", message |-> "bad credentials"],
                 [code |-> "ECONNECTION", message |-> ""] }

NoReply == [none |-> TRUE]

\* return info
sendMarkdownEmailReturn(info) == [kind |-> "returned", value |-> info]

\* mutant: the failure is logged and swallowed
sendMarkdownEmailThrow_swallow(error) == [kind |-> "returned", value |-> NoReply]

\* throw error
sendMarkdownEmailThrow(error) == [kind |-> "thrown", value |-> error]

sendMarkdownEmail ==
    \E to \in Recipients, subject \in Subjects, html \in Bodies :
        /\ mailPc = "idle"
        /\ mailPc' = "sending"
        /\ mailCalls' = <<[from |-> EmailCtor.address, to |-> to,
                           subject |-> subject, html |-> html]>>
        /\ relayReply' = NoReply
        /\ mailResult' = NoReply
        /\ UNCHANGED facadeVars
        /\ UNCHANGED opVars

sendMarkdownEmail_then ==
    /\ mailPc = "sending"
    /\ \E info \in Receipts :
          /\ relayReply' = info
          /\ mailResult' = sendMarkdownEmailReturn(info)
    /\ mailPc' = "settled"
    /\ UNCHANGED mailCalls
    /\ UNCHANGED facadeVars
    /\ UNCHANGED opVars

sendMarkdownEmail_catch ==
    /\ mailPc = "sending"
    /\ \E error \in RelayErrors :
          /\ relayReply' = error
          /\ mailResult' = sendMarkdownEmailThrow(error)
    /\ mailPc' = "settled"
    /\ UNCHANGED mailCalls
    /\ UNCHANGED facadeVars
    /\ UNCHANGED opVars

\* the caller has the receipt or has caught the failure
MailSettled ==
    /\ mailPc = "settled"
    /\ mailPc' = "idle"
    /\ mailCalls' = <<>>
    /\ relayReply' = NoReply
    /\ mailResult' = NoReply
    /\ UNCHANGED facadeVars
    /\ UNCHANGED opVars

Init ==
    /\ heap = [r \in {1, 2} |-> CtorConfig]
    /\ callerRef = 0
    /\ table = CtorConfig.tableName
    /\ lastSwitch = CtorConfig.tableName
    /\ op = "none"
    /\ pc = "idle"
    /\ local = FreshLocal
    /\ calls = <<>>
    /\ committed = <<>>
    /\ outcome = "none"
    /\ envelope = NoEnvelope
    /\ invokedUnder = CtorConfig.tableName
    /\ switched = FALSE
    /\ mailPc = "idle"
    /\ mailCalls = <<>>
    /\ relayReply = NoReply
    /\ mailResult = NoReply

Next ==
    \/ create \/ create_then \/ create_catch
    \/ getAll \/ search(MainFilterLen) \/ getAll_page \/ getAll_catch
    \/ getById \/ getById_then \/ getById_catch
    \/ update \/ update_then \/ update_catch
    \/ delete \/ delete_then \/ delete_catch
    \/ getPaginated \/ getPaginated_page \/ getPaginated_catch
    \/ count \/ count_page \/ count_catch
    \/ exists \/ exists_then \/ exists_catch
    \/ Settled
    \/ bulkCreate \/ bulkCreate_then \/ bulkCreate_catch
    \/ bulkUpdate \/ bulkUpdate_then \/ bulkUpdate_catch
    \/ bulkDelete \/ bulkDelete_then \/ bulkDelete_catch
    \/ getConfig \/ switchTable \/ CallerMutates

Spec == Init /\ [][Next]_vars

\* every step that the settling of an awaited remote call triggers
Completion ==
    \/ create_then \/ create_catch
    \/ getAll_page \/ getAll_catch
    \/ getById_then \/ getById_catch
    \/ update_then \/ update_catch
    \/ delete_then \/ delete_catch
    \/ getPaginated_page \/ getPaginated_catch
    \/ count_page \/ count_catch
    \/ exists_then \/ exists_catch
    \/ bulkCreate_then \/ bulkCreate_catch
    \/ bulkUpdate_then \/ bulkUpdate_catch
    \/ bulkDelete_then \/ bulkDelete_catch

\* every remote call eventually completes, with a result or a failure
FairSpec == Init /\ [][Next]_vars /\ WF_vars(Completion)

\* the filter-formula builder on every filter mapping up to MaxFilterLen entries
NextFilter == search(MaxFilterLen) \/ getAll_page \/ getAll_catch \/ Settled

SpecFilter == Init /\ [][NextFilter]_vars

NextMail ==
    \/ sendMarkdownEmail \/ sendMarkdownEmail_then \/ sendMarkdownEmail_catch
    \/ MailSettled

MailSpec == Init /\ [][NextMail]_vars

(***************************************************************************)
(* Properties.                                                             *)
(***************************************************************************)
IsBulk == op \in {"bulkCreate", "bulkUpdate", "bulkDelete"}

Returned == outcome = "envelope"

Succeeded == Returned /\ envelope.success

Failed == Returned /\ ~envelope.success

RECURSIVE Concat(_)
Concat(seqs) == IF Len(seqs) = 0 THEN <<>> ELSE seqs[1] \o Concat(Tail(seqs))

\* C1: a bulk operation over N items sends its chunks one at a time and in input
\* order; chunk j is items 10(j-1)+1 .. min(10j, N), so no call carries more than
\* 10 items and every call but the last carries exactly 10; when every call has
\* succeeded there were exactly ceil(N/10) calls, their concatenation is the input,
\* and the envelope reports N results in input order (deletedCount = N for
\* bulkDelete).
C1_BulkChunks ==
    IsBulk =>
        LET items == local.input
            N == Len(items)
            chunks == (N + 9) \div 10
        IN  /\ Len(calls) <= Len(committed) + 1
            /\ (pc = "awaiting") => Len(calls) = Len(committed) + 1
            /\ \A j \in 1..Len(calls) :
                  /\ j <= chunks
                  /\ calls[j].args = [x \in 1..(Min(10 * j, N) - 10 * (j - 1)) |->
                                         items[10 * (j - 1) + x]]
                  /\ Len(calls[j].args) <= 10
                  /\ j < chunks => Len(calls[j].args) = 10
            /\ Succeeded =>
                  /\ Len(calls) = chunks
                  /\ committed = calls
                  /\ Concat([j \in 1..Len(calls) |-> calls[j].args]) = items
                  /\ op = "bulkDelete" =>
                        /\ envelope.deletedCount = N
                        /\ "data" \notin DOMAIN envelope
                  /\ op # "bulkDelete" =>
                        /\ envelope.count = N
                        /\ Len(envelope.data) = N
                        /\ \A x \in 1..N : envelope.data[x].fields = items[x].fields
                        /\ op = "bulkUpdate" =>
                              \A x \in 1..N : envelope.data[x].id = items[x].id

C1_Witness ==
    /\ op = "bulkCreate"
    /\ Len(local.input) = 25
    /\ Succeeded
    /\ Len(calls) = 3
    /\ Len(calls[1].args) = 10
    /\ Len(calls[2].args) = 10
    /\ Len(calls[3].args) = 5
    /\ envelope.count = 25

BulkMethod == IF op = "bulkCreate" THEN "create"
              ELSE IF op = "bulkUpdate" THEN "update" ELSE "destroy"

\* C2: when the call for chunk k of a bulk operation fails, chunk k is the last
\* call the operation issues, every call it issued is a call of its own write
\* method (none undoes an earlier chunk), chunks 1..k-1 stay applied in the
\* store, and the envelope is exactly {success: false, error: <non-empty string>}.
C2_BulkFailure ==
    (IsBulk /\ Failed) =>
        /\ Len(calls) = Len(committed) + 1
        /\ committed = SubSeq(calls, 1, Len(calls) - 1)
        /\ \A j \in 1..Len(calls) : calls[j].method = BulkMethod
        /\ DOMAIN envelope = {"success", "error"}
        /\ envelope.error # ""
        /\ local.error \in Errors

C2_Witness ==
    /\ op = "bulkCreate"
    /\ Failed
    /\ Len(local.input) = 25
    /\ Len(calls) = 2
    /\ Len(committed) = 1
    /\ Len(local.results) = 10

\* C3: no facade operation ever rejects, getPaginated never requests a second
\* page, and, every remote call completing, an operation that awaits a remote
\* call eventually returns an envelope.
C3_Claim ==
    /\ [](outcome # "rejected")
    /\ [](op = "getPaginated" => Len(calls) <= 1)
    /\ ((pc = "awaiting") ~> (pc = "returned" /\ outcome = "envelope"))

\* C4: exists issues one find call; found gives {success: true, exists: true},
\* status 404 gives {success: true, exists: false} with no error field, any other
\* failure gives {success: false, error: <message>} with no exists field.
C4_Exists ==
    (op = "exists") =>
        /\ Len(calls) = 1
        /\ calls[1].method = "find"
        /\ calls[1].args = local.input
        /\ Returned =>
              IF local.error = NoError
              THEN envelope = [success |-> TRUE, exists |-> TRUE]
              ELSE IF local.error.statusCode = 404
              THEN envelope = [success |-> TRUE, exists |-> FALSE]
              ELSE /\ DOMAIN envelope = {"success", "error"}
                   /\ envelope.success = FALSE
                   /\ envelope.error \in {local.error.message,
                                          "Failed to check record existence"}
                   /\ envelope.error # ""

C4_Witness ==
    /\ op = "exists"
    /\ Returned
    /\ local.error.statusCode = 404
    /\ local.error.message # ""
    /\ envelope.success
    /\ ~envelope.exists

Fallback == IF op = "getById" THEN "Failed to fetch record"
            ELSE IF op = "update" THEN "Failed to update record"
            ELSE "Failed to delete record"

\* C5: when the single call of getById, update or delete fails, the envelope is
\* a failure whose error is "Record not found" for status 404, whatever the
\* remote's message, and otherwise the remote's message, or the operation's
\* fallback when it has none; the call is not retried.
C5_NotFound ==
    (op \in {"getById", "update", "delete"} /\ Returned /\ local.error # NoError) =>
        /\ Len(calls) = 1
        /\ envelope.success = FALSE
        /\ local.error.statusCode = 404 => envelope.error = "Record not found"
        /\ (local.error.statusCode # 404 /\ local.error.message # "") =>
              envelope.error = local.error.message
        /\ (local.error.statusCode # 404 /\ local.error.message = "") =>
              envelope.error = Fallback

C5_Witness ==
    /\ op = "update"
    /\ Returned
    /\ local.error = [statusCode |-> 404, message |-> "remote says no"]
    /\ envelope.error = "Record not found"

\* C6: once getPaginated has been given its page, it has returned a success
\* envelope with the page as data, and the envelope carries nextOffset exactly
\* when the page holds pageSize records, nextOffset then being the identifier
\* of the last record.
C6_Claim ==
    (op = "getPaginated" /\ local.pages = 1) =>
        /\ Succeeded
        /\ envelope.data = local.records
        /\ ("nextOffset" \in DOMAIN envelope) <=> (Len(envelope.data) = local.pageSize)
        /\ ("nextOffset" \in DOMAIN envelope) =>
              envelope.nextOffset = envelope.data[Len(envelope.data)].id

PayloadFields == {"data", "count", "nextOffset", "message", "deletedCount", "exists"}

\* C7: a returned envelope with success = true has no error field and at least
\* one payload field; one with success = false has a non-empty error and no
\* payload field.
C7_Envelope ==
    Returned =>
        /\ envelope.success =>
              /\ "error" \notin DOMAIN envelope
              /\ DOMAIN envelope \cap PayloadFields # {}
        /\ ~envelope.success =>
              /\ "error" \in DOMAIN envelope
              /\ envelope.error # ""
              /\ DOMAIN envelope \cap PayloadFields = {}

C7_Witness ==
    /\ op = "count"
    /\ Failed
    /\ local.error.message = ""
    /\ envelope.error = "Failed to count records"

\* the entries the claim calls qualifying, in mapping order
Qualifying(filters) ==
    SelectSeq(filters, LAMBDA e : /\ e.value.t # "undefined"
                                  /\ e.value.t # "null"
                                  /\ e.value # Val("string", "", 0, FALSE))

RECURSIVE CommaList(_)
CommaList(preds) ==
    IF Len(preds) = 1 THEN preds[1]
    ELSE CommaList(SubSeq(preds, 1, Len(preds) - 1)) \o ", " \o preds[Len(preds)]

\* C8: the formula search builds is "" with no qualifying entry, the entry's
\* predicate alone with one, and AND(p1, ..., pn) over the qualifying entries'
\* predicates in mapping order with two or more; the select call carries the
\* formula, and carries no filterByFormula at all when the formula is "".
C8_FilterFormula ==
    (op = "search") =>
        LET quals == Qualifying(local.input[1].filters)
            preds == [j \in 1..Len(quals) |-> condition(quals[j].field, quals[j].value)]
            formula == local.filterFormula
        IN  /\ Len(quals) = 0 => formula = ""
            /\ Len(quals) = 1 => formula = preds[1]
            /\ Len(quals) >= 2 => formula = "AND(" \o CommaList(preds) \o ")"
            /\ formula = "" => "filterByFormula" \notin DOMAIN calls[1].args
            /\ formula # "" => calls[1].args.filterByFormula = formula

C8_Witness ==
    /\ op = "search"
    /\ local.input[1].filters =
          <<[field |-> "age", value |-> Val("number", "", 0, FALSE)],
            [field |-> "vip", value |-> Val("boolean", "", 0, FALSE)]>>
    /\ local.filterFormula = "AND({age} = 0, {vip} = FALSE())"
    /\ calls[1].args.filterByFormula = "AND({age} = 0, {vip} = FALSE())"

\* C9: a call of sendMarkdownEmail makes one sendMail request; when the relay
\* accepts, the call returns the relay's receipt; when the relay fails, the call
\* throws the relay's failure and returns nothing.
C9_Mail ==
    /\ Len(mailCalls) <= 1
    /\ (mailPc = "sending") => (Len(mailCalls) = 1 /\ mailResult = NoReply)
    /\ (mailPc = "settled") =>
          /\ Len(mailCalls) = 1
          /\ relayReply \in Receipts =>
                mailResult = [kind |-> "returned", value |-> relayReply]
          /\ relayReply \in RelayErrors =>
                mailResult = [kind |-> "thrown", value |-> relayReply]

C9_Witness ==
    /\ mailPc = "settled"
    /\ relayReply \in RelayErrors
    /\ mailResult.kind = "thrown"

ConfigIntact == heap[1] = [CtorConfig EXCEPT !.tableName = lastSwitch]

====
